---- MODULE Spec2Model ----
(***************************************************************************)
(* Model of src/scenes.rs of opengl-squares: the scene selector (enum      *)
(* Scenes), the shader program builder (create_shader_program,             *)
(* verify_shader, verify_program) and the debug scope helper               *)
(* (DEBUG_ENABLED, push_debug_group, pop_debug_group).                     *)
(*                                                                         *)
(* Three specifications share the variables:                               *)
(*   Spec        the selector driven by the host's event loop              *)
(*   SpecShader  calls of create_shader_program against a GL object table  *)
(*   SpecDebug   calls of push_debug_group / pop_debug_group               *)
(***************************************************************************)
EXTENDS Integers, Sequences, FiniteSets, TLC

\* ------------------------------------------------------------------ bounds
\* number of scene instances ever constructed
MaxInstances == 4
\* largest blur parameter (radius / iteration count) a scene reaches
MaxParam == 2
\* largest info-log length the driver reports
MaxLogLen == 2
\* largest drawable size of the window
MaxSize == 2
\* number of create_shader_program calls
MaxBuilds == 1
\* number of push_debug_group calls
MaxDebugCalls == 10

\* ------------------------------------------------------------------- state
VARIABLES
    \* selector
    scene,          \* *self: the active variant, [tag, id, param, size]
    pending,        \* the freshly constructed variant not yet assigned to *self
    pc,             \* position inside switch_scene: "idle" or "assign"
    alive,          \* ids of the scene instances constructed and not yet dropped
    nextId,         \* id of the next instance to be constructed
    windowSize,     \* drawable size of the host window
    binding,        \* id of the instance whose program is current in the GL context
    lastFKey,       \* history: most recent F1/F2/F3 passed to switch_scene
    lastOp,         \* history: the selector call made last, [op, key, tag, id] with the tag and id before it
    lastCall,       \* history: the variant method that call invoked, or NoCall
    \* shader program builder
    glObjs,         \* GL object table, name = index
    currentProgram, \* GL_CURRENT_PROGRAM
    stderr,         \* diagnostic stream
    mark,           \* length of stderr when the last build started
    glCalls,        \* GL commands issued by the last build
    args,           \* inputs of the last build
    ret,            \* value returned by the last build
    builds,         \* number of builds made
    \* debug scope helper
    DEBUG_ENABLED,  \* the process-wide flag
    pushCalls,      \* calls of push_debug_group
    popCalls,       \* calls of pop_debug_group
    pushMarkers,    \* gl::PushDebugGroup commands issued
    popMarkers      \* gl::PopDebugGroup commands issued

selVars == <<scene, pending, pc, alive, nextId, windowSize, binding,
             lastFKey, lastOp, lastCall>>
glVars == <<glObjs, currentProgram, stderr, mark, glCalls, args, ret, builds>>
dbgVars == <<DEBUG_ENABLED, pushCalls, popCalls, pushMarkers, popMarkers>>
vars == <<selVars, glVars, dbgVars>>

\* ---------------------------------------------------------------- selector
FKeys == {"F1", "F2", "F3"}
Keys == FKeys \cup {"Inc", "Dec", "Other"}
Tags == {"RoundQuads", "Blurring", "Kawase"}
Sizes == 1..MaxSize
NoScene == [tag |-> "none", id |-> 0, param |-> 0, size |-> 0]
NoCall == [id |-> 0, method |-> "none", key |-> "none"]

\* the match arms of switch_scene
KeyToTagSwapped(k) ==
    CASE k = "F1" -> "RoundQuads"
      [] k = "F2" -> "Kawase"
      [] k = "F3" -> "Blurring"
      [] OTHER -> "none"

KeyToTag(k) ==
    CASE k = "F1" -> "RoundQuads"
      [] k = "F2" -> "Blurring"
      [] k = "F3" -> "Kawase"
      [] OTHER -> "none"

\* XScene::new(window): a fresh instance sized to the current window
SceneNew(tag, id, size) ==
    [tag |-> tag, id |-> id, param |-> IF tag = "RoundQuads" THEN 0 ELSE 1, size |-> size]

\* BlurringScene::on_key / KawaseScene::on_key: adjust the blur parameter
SceneOnKey(s, k) ==
    CASE k = "Inc" /\ s.param < MaxParam -> [s EXCEPT !.param = @ + 1]
      [] k = "Dec" /\ s.param > 0 -> [s EXCEPT !.param = @ - 1]
      [] OTHER -> s

\* XScene::resize: reallocate the size-dependent render targets
SceneResize(s, size) == [s EXCEPT !.size = size]

\* the old value of *self is dropped by the assignment
DropLeaks(a, old) == a

Drop(a, old) == a \ {old.id}

\* *self = <new value>
AssignLost(old, new) == old

Assign(old, new) == new

\* the variant method Scenes::on_key invokes
OnKeyCallNoBlurring(s, k) ==
    IF s.tag \in {"RoundQuads", "Blurring"} THEN NoCall
    ELSE [id |-> s.id, method |-> "on_key", key |-> k]

OnKeyCall(s, k) ==
    IF s.tag = "RoundQuads" THEN NoCall
    ELSE [id |-> s.id, method |-> "on_key", key |-> k]

\* the effect of Scenes::on_key on *self
OnKeyForwardsAll(s, k) == SceneOnKey(s, k)

OnKeyEffect(s, k) ==
    IF s.tag = "RoundQuads" THEN s ELSE SceneOnKey(s, k)

InitScenes ==
    /\ windowSize \in Sizes
    /\ scene = SceneNew("Kawase", 1, windowSize)
    /\ pending = NoScene
    /\ pc = "idle"
    /\ alive = {1}
    /\ nextId = 2
    /\ binding = 1
    /\ lastFKey = "none"
    /\ lastOp = [op |-> "new", key |-> "none", tag |-> "none", id |-> 0]
    /\ lastCall = NoCall

\* switch_scene, first half: the match and the evaluation of the right-hand side
switch_scene(k) ==
    /\ pc = "idle"
    /\ lastOp' = [op |-> "switch_scene", key |-> k, tag |-> scene.tag, id |-> scene.id]
    /\ lastCall' = NoCall
    /\ IF KeyToTag(k) \in Tags
       THEN /\ nextId <= MaxInstances
            /\ pending' = SceneNew(KeyToTag(k), nextId, windowSize)
            /\ alive' = alive \cup {nextId}
            /\ nextId' = nextId + 1
            /\ binding' = nextId
            /\ lastFKey' = k
            /\ pc' = "assign"
       ELSE UNCHANGED <<pending, alive, nextId, binding, lastFKey, pc>>
    /\ UNCHANGED <<scene, windowSize>>

\* switch_scene, second half: the assignment to *self, which drops the old value
switch_scene_assign ==
    /\ pc = "assign"
    /\ scene' = Assign(scene, pending)
    /\ alive' = Drop(alive, scene)
    /\ pending' = NoScene
    /\ pc' = "idle"
    /\ UNCHANGED <<nextId, windowSize, binding, lastFKey, lastOp, lastCall>>

on_key(k) ==
    /\ pc = "idle"
    /\ lastOp' = [op |-> "on_key", key |-> k, tag |-> scene.tag, id |-> scene.id]
    /\ lastCall' = OnKeyCall(scene, k)
    /\ scene' = OnKeyEffect(scene, k)
    /\ UNCHANGED <<pending, pc, alive, nextId, windowSize, binding, lastFKey>>

draw ==
    /\ pc = "idle"
    /\ lastOp' = [op |-> "draw", key |-> "none", tag |-> scene.tag, id |-> scene.id]
    /\ lastCall' = [id |-> scene.id, method |-> "draw", key |-> "none"]
    /\ binding' = scene.id
    /\ UNCHANGED <<scene, pending, pc, alive, nextId, windowSize, lastFKey>>

resize(size) ==
    /\ pc = "idle"
    /\ lastOp' = [op |-> "resize", key |-> "none", tag |-> scene.tag, id |-> scene.id]
    /\ lastCall' = [id |-> scene.id, method |-> "resize", key |-> "none"]
    /\ windowSize' = size
    /\ scene' = SceneResize(scene, size)
    /\ UNCHANGED <<pending, pc, alive, nextId, binding, lastFKey>>

\* ------------------------------------------------- shader program builder
\* a source buffer is abstracted to what the driver makes of it: whether it
\* compiles, and the info-log length (terminator included) it reports
Sources == [ok : BOOLEAN, logLen : 0..MaxLogLen]
\* what the driver makes of the link when both stages compiled
LinkOutcomes == [ok : BOOLEAN, logLen : 0..MaxLogLen]

NoArgs == [vert |-> [ok |-> TRUE, logLen |-> 0], frag |-> [ok |-> TRUE, logLen |-> 0],
           link |-> [ok |-> TRUE, logLen |-> 0], prev |-> 0]

\* The GL context a build runs against:
\*   objs   object table    cur  current program
\*   calls  commands issued err  diagnostic stream
NewObj(kind, stage) ==
    [kind |-> kind, stage |-> stage, status |-> FALSE, logLen |-> 0,
     flagged |-> FALSE, attached |-> {}]

IsShader(g, name) == name \in 1..Len(g.objs) /\ g.objs[name].kind = "shader"
IsProgram(g, name) == name \in 1..Len(g.objs) /\ g.objs[name].kind = "program"

\* gl::CreateShader / gl::CreateProgram hand out the next unused name
CreateShader(g, stage) ==
    [g EXCEPT !.objs = Append(@, NewObj("shader", stage)),
              !.calls = Append(@, "CreateShader")]

CreateProgram(g) ==
    [g EXCEPT !.objs = Append(@, NewObj("program", "none")),
              !.calls = Append(@, "CreateProgram")]

LastName(g) == Len(g.objs)

\* gl::ShaderSource + gl::CompileShader
CompileShader(g, shader, src) ==
    [g EXCEPT !.objs[shader].status = src.ok,
              !.objs[shader].logLen = src.logLen,
              !.calls = Append(@, "CompileShader")]

AttachShader(g, program, shader) ==
    [g EXCEPT !.objs[program].attached = @ \cup {shader},
              !.calls = Append(@, "AttachShader")]

\* gl::LinkProgram: the link fails when an attached stage is not compiled
LinkProgram(g, program, link) ==
    LET stagesOk == \A sh \in g.objs[program].attached : g.objs[sh].status
    IN [g EXCEPT !.objs[program].status = stagesOk /\ link.ok,
                 !.objs[program].logLen = link.logLen,
                 !.calls = Append(@, "LinkProgram")]

\* gl::UseProgram: INVALID_OPERATION on a program that is not linked, and
\* the current program is then left as it was
UseProgram(g, program) ==
    [g EXCEPT !.cur = IF IsProgram(g, program) /\ g.objs[program].status
                      THEN program ELSE @,
              !.calls = Append(@, "UseProgram")]

\* gl::DeleteShader: an attached shader is only flagged for deletion
DeleteShader(g, shader) ==
    [g EXCEPT !.objs[shader].flagged = TRUE,
              !.calls = Append(@, "DeleteShader")]

\* gl::GetShaderiv(name, pname, &mut out): writes out only when name is a
\* shader object and pname a shader parameter; otherwise it raises a GL
\* error and out keeps the value it had
GetShaderiv(g, name, pname, out) ==
    IF IsShader(g, name) /\ pname \in {"COMPILE_STATUS", "INFO_LOG_LENGTH"}
    THEN IF pname = "COMPILE_STATUS"
         THEN (IF g.objs[name].status THEN 1 ELSE 0)
         ELSE g.objs[name].logLen
    ELSE out

\* gl::GetShaderInfoLog / gl::GetProgramInfoLog: the number of characters
\* written into a buffer of bufSize bytes, terminator excluded
GetShaderInfoLog(g, name, bufSize) ==
    IF IsShader(g, name) /\ bufSize > 0 /\ g.objs[name].logLen > 0
    THEN (IF g.objs[name].logLen <= bufSize THEN g.objs[name].logLen ELSE bufSize) - 1
    ELSE 0

GetProgramInfoLog(g, name, bufSize) ==
    IF IsProgram(g, name) /\ bufSize > 0 /\ g.objs[name].logLen > 0
    THEN (IF g.objs[name].logLen <= bufSize THEN g.objs[name].logLen ELSE bufSize) - 1
    ELSE 0

\* eprintln!
Emit(g, prefix, ty, logChars) ==
    [g EXCEPT !.err = Append(@, [prefix |-> prefix, ty |-> ty, log |-> logChars])]

verify_shader_inverted(g, shader, ty) ==
    LET status == GetShaderiv(g, shader, "COMPILE_STATUS", 0)
        length == GetShaderiv(g, shader, "INFO_LOG_LENGTH", 0)
    IN IF status = 1 /\ length > 0
       THEN Emit(g, "SHADER COMPILE ERROR", ty, GetShaderInfoLog(g, shader, length))
       ELSE g

verify_shader(g, shader, ty) ==
    LET status == GetShaderiv(g, shader, "COMPILE_STATUS", 0)
        length == GetShaderiv(g, shader, "INFO_LOG_LENGTH", 0)
    IN IF status # 1 /\ length > 0
       THEN Emit(g, "SHADER COMPILE ERROR", ty, GetShaderInfoLog(g, shader, length))
       ELSE g

verify_program(g, shader) ==
    LET status == GetShaderiv(g, shader, "LINK_STATUS", 0)
        length == GetShaderiv(g, shader, "INFO_LOG_LENGTH", 0)
    IN IF status # 1 /\ length > 0
       THEN Emit(g, "PROGRAM LINK ERROR", "none", GetProgramInfoLog(g, shader, length))
       ELSE g

\* lines 65-72 and 74-81: create, source, compile and verify one stage
CompileStage(g, stage, src, ty) ==
    LET g1 == CreateShader(g, stage)
        sh == LastName(g1)
    IN verify_shader(CompileShader(g1, sh, src), sh, ty)

\* lines 83-94: create the program, attach, link, use, delete the stages, verify
LinkStageKeepsShaders(g, vert_shader, frag_shader, link) ==
    LET g1 == CreateProgram(g)
        program == LastName(g1)
        g2 == AttachShader(g1, program, vert_shader)
        g3 == AttachShader(g2, program, frag_shader)
        g4 == LinkProgram(g3, program, link)
        g5 == UseProgram(g4, program)
    IN verify_program(g5, program)

LinkStage(g, vert_shader, frag_shader, link) ==
    LET g1 == CreateProgram(g)
        program == LastName(g1)
        g2 == AttachShader(g1, program, vert_shader)
        g3 == AttachShader(g2, program, frag_shader)
        g4 == LinkProgram(g3, program, link)
        g5 == UseProgram(g4, program)
        g6 == DeleteShader(g5, vert_shader)
        g7 == DeleteShader(g6, frag_shader)
    IN verify_program(g7, program)

InitGL ==
    /\ glObjs = <<>>
    /\ currentProgram = 0
    /\ stderr = <<>>
    /\ mark = 0
    /\ glCalls = <<>>
    /\ args = NoArgs
    /\ ret = 0
    /\ builds = 0

create_shader_program(vert_source, frag_source, link) ==
    /\ builds < MaxBuilds
    /\ LET g0 == [objs |-> glObjs, cur |-> currentProgram, calls |-> <<>>, err |-> stderr]
           g1 == CompileStage(g0, "VERTEX_SHADER", vert_source, "vert")
           vert_shader == LastName(g1)
           g2 == CompileStage(g1, "FRAGMENT_SHADER", frag_source, "frag")
           frag_shader == LastName(g2)
           g3 == LinkStage(g2, vert_shader, frag_shader, link)
           program == LastName(g3)
       IN /\ glObjs' = g3.objs
          /\ currentProgram' = g3.cur
          /\ stderr' = g3.err
          /\ glCalls' = g3.calls
          /\ ret' = program
    /\ mark' = Len(stderr)
    /\ args' = [vert |-> vert_source, frag |-> frag_source, link |-> link,
                prev |-> currentProgram]
    /\ builds' = builds + 1

\* ------------------------------------------------------ debug scope helper
InitDebug ==
    /\ DEBUG_ENABLED \in BOOLEAN
    /\ pushCalls = 0
    /\ popCalls = 0
    /\ pushMarkers = 0
    /\ popMarkers = 0

push_debug_group ==
    /\ pushCalls < MaxDebugCalls
    /\ pushCalls' = pushCalls + 1
    /\ pushMarkers' = IF DEBUG_ENABLED THEN pushMarkers + 1 ELSE pushMarkers
    /\ UNCHANGED <<DEBUG_ENABLED, popCalls, popMarkers>>

pop_debug_group_unguarded ==
    /\ popCalls < pushCalls
    /\ popCalls' = popCalls + 1
    /\ popMarkers' = popMarkers + 1
    /\ UNCHANGED <<DEBUG_ENABLED, pushCalls, pushMarkers>>

\* the callers pair every end with a begin: pop is called inside an open scope
pop_debug_group ==
    /\ popCalls < pushCalls
    /\ popCalls' = popCalls + 1
    /\ popMarkers' = IF DEBUG_ENABLED THEN popMarkers + 1 ELSE popMarkers
    /\ UNCHANGED <<DEBUG_ENABLED, pushCalls, pushMarkers>>

\* ---------------------------------------------------------- specifications
Init == InitScenes /\ InitGL /\ InitDebug

Next ==
    \/ \E k \in Keys : switch_scene(k) /\ UNCHANGED <<glVars, dbgVars>>
    \/ switch_scene_assign /\ UNCHANGED <<glVars, dbgVars>>
    \/ \E k \in Keys : on_key(k) /\ UNCHANGED <<glVars, dbgVars>>
    \/ draw /\ UNCHANGED <<glVars, dbgVars>>
    \/ \E size \in Sizes : resize(size) /\ UNCHANGED <<glVars, dbgVars>>

InitSelector == Init /\ ~DEBUG_ENABLED

Spec == InitSelector /\ [][Next]_vars

\* the driver cannot link stages that did not compile
NextShader ==
    \E v \in Sources, f \in Sources, l \in LinkOutcomes :
        /\ l.ok => (v.ok /\ f.ok)
        /\ create_shader_program(v, f, l)
        /\ UNCHANGED <<selVars, dbgVars>>

InitShader == Init /\ windowSize = 1 /\ ~DEBUG_ENABLED

SpecShader == InitShader /\ [][NextShader]_vars

NextDebug ==
    \/ push_debug_group /\ UNCHANGED <<selVars, glVars>>
    \/ pop_debug_group /\ UNCHANGED <<selVars, glVars>>

InitDebugOnly == Init /\ windowSize = 1

SpecDebug == InitDebugOnly /\ [][NextDebug]_vars

\* ------------------------------------------------------------ properties
\* the variant a function key selects, as the specification states it
Selected(k) ==
    CASE k = "F1" -> "RoundQuads"
      [] k = "F2" -> "Blurring"
      [] k = "F3" -> "Kawase"
      [] OTHER -> "Kawase"

\* C1: between selector calls the active variant is the one selected by the
\* most recent F1/F2/F3 passed to switch_scene, Kawase if there was none;
\* lastFKey changes in no other call, so no other call changes the variant.
C1_ActiveIsLastSelected ==
    pc = "idle" => scene.tag = Selected(lastFKey)

C1_Witness ==
    /\ pc = "idle"
    /\ lastFKey = "F2"
    /\ scene.tag = "Blurring"
    /\ lastOp.op = "on_key"
    /\ lastOp.key = "F1"

\* C2 as stated: in every state, the steps inside switch_scene included, at
\* most one scene instance is alive.
C2_AtMostOneAlive ==
    Cardinality(alive) <= 1

\* C2 amended: between selector calls exactly the active instance is alive;
\* inside switch_scene the new instance is constructed before the previous
\* one is dropped, so exactly those two are alive until the assignment.
C2_OneAliveBetweenCalls ==
    /\ pc = "idle" => alive = {scene.id}
    /\ pc = "assign" => alive = {scene.id, pending.id} /\ scene.id # pending.id

C2_Witness ==
    /\ pc = "idle"
    /\ lastOp.op = "switch_scene"
    /\ lastOp.key = "F1"
    /\ scene.id # lastOp.id
    /\ alive = {scene.id}

\* C3 as stated: a key other than F1/F2/F3 keeps the active instance, and
\* on_key invokes the active variant's on_key with it.
C3_OtherKeyForwarded ==
    (pc = "idle" /\ lastOp.op \in {"switch_scene", "on_key"} /\ lastOp.key \notin FKeys)
    => /\ scene.id = lastOp.id
       /\ scene.tag = lastOp.tag
       /\ lastOp.op = "on_key"
          => lastCall = [id |-> scene.id, method |-> "on_key", key |-> lastOp.key]

\* C3 amended: a key other than F1/F2/F3 keeps the active instance; on_key
\* invokes the variant's on_key with it when the variant is Blurring or
\* Kawase, and for RoundQuads the selector ignores the key itself without
\* invoking any method of the variant.
C3_OtherKeyForwardedUnlessRoundQuads ==
    (pc = "idle" /\ lastOp.op \in {"switch_scene", "on_key"} /\ lastOp.key \notin FKeys)
    => /\ scene.id = lastOp.id
       /\ scene.tag = lastOp.tag
       /\ (lastOp.op = "on_key" /\ scene.tag \in {"Blurring", "Kawase"})
          => lastCall = [id |-> scene.id, method |-> "on_key", key |-> lastOp.key]
       /\ (lastOp.op = "on_key" /\ scene.tag = "RoundQuads") => lastCall = NoCall

C3_Witness ==
    /\ pc = "idle"
    /\ lastOp.op = "on_key"
    /\ lastOp.key = "Inc"
    /\ scene.tag = "Blurring"
    /\ scene.param = 2
    /\ lastCall = [id |-> scene.id, method |-> "on_key", key |-> "Inc"]

\* C4: switch_scene with the key of the active variant yields the same tag
\* on a freshly constructed instance, the prior instance is dropped when the
\* call returns, and after any sequence of switches one instance is alive.
C4_SwitchIdempotent ==
    /\ pc = "idle" => Cardinality(alive) = 1
    /\ (pc = "idle" /\ lastOp.op = "switch_scene" /\ lastOp.key \in FKeys
        /\ Selected(lastOp.key) = lastOp.tag)
       => /\ scene.tag = lastOp.tag
          /\ scene.id = nextId - 1
          /\ scene.id # lastOp.id
          /\ lastOp.id \notin alive
          /\ scene.id \in alive

C4_Witness ==
    /\ pc = "idle"
    /\ lastOp = [op |-> "switch_scene", key |-> "F2", tag |-> "Blurring", id |-> 2]
    /\ scene.tag = "Blurring"
    /\ scene.id = 3
    /\ alive = {3}

\* C5: while RoundQuads is active, on_key with any key changes no state
\* component: not the tag, not the instance, not the GPU binding.
C5_RoundQuadsOnKeyNoop ==
    [][(pc = "idle" /\ lastOp'.op = "on_key" /\ scene.tag = "RoundQuads")
       => UNCHANGED <<scene, pending, pc, alive, nextId, windowSize, binding>>]_vars

C5_Witness ==
    /\ pc = "idle"
    /\ lastOp = [op |-> "on_key", key |-> "Inc", tag |-> "RoundQuads", id |-> scene.id]
    /\ scene.tag = "RoundQuads"

\* the diagnostics the last build wrote
Emitted == {stderr[i] : i \in (mark + 1)..Len(stderr)}

\* C6 as stated: when the vertex stage fails and the fragment stage compiles,
\* a "vert" diagnostic is emitted and no "frag" one, for every log length.
C6_VertFailureReported ==
    (builds > 0 /\ ~args.vert.ok /\ args.frag.ok)
    => /\ \E d \in Emitted : d.prefix = "SHADER COMPILE ERROR" /\ d.ty = "vert"
       /\ ~ \E d \in Emitted : d.ty = "frag"

\* C7 as stated: every link failure is reported by a PROGRAM LINK ERROR line.
C7_LinkFailureReported ==
    (builds > 0 /\ ~glObjs[ret].status)
    => \E d \in Emitted : d.prefix = "PROGRAM LINK ERROR"

\* C8: when both stages compile and the program links, the build writes no
\* diagnostic and returns a program whose link status is valid.
C8_SuccessIsSilent ==
    (builds > 0 /\ args.vert.ok /\ args.frag.ok /\ args.link.ok)
    => /\ Emitted = {}
       /\ Len(stderr) = mark
       /\ glObjs[ret].kind = "program"
       /\ glObjs[ret].status

C8_Witness ==
    /\ builds > 0
    /\ args.vert.ok /\ args.frag.ok /\ args.link.ok
    /\ args.vert.logLen > 0
    /\ args.link.logLen > 0
    /\ currentProgram = ret

AllSteps ==
    <<"CreateShader", "CompileShader", "CreateShader", "CompileShader",
      "CreateProgram", "AttachShader", "AttachShader", "LinkProgram",
      "UseProgram", "DeleteShader", "DeleteShader">>

C10_DebugMarkers ==
    /\ ~DEBUG_ENABLED => pushMarkers = 0 /\ popMarkers = 0
    /\ DEBUG_ENABLED => pushMarkers = pushCalls /\ popMarkers = popCalls
    /\ pushCalls = popCalls => pushMarkers = popMarkers

C10_Witness ==
    /\ ~DEBUG_ENABLED
    /\ pushCalls = 2
    /\ popCalls = 2

====
